---- MODULE Spec2Model ----
(***************************************************************************)
(* Model of the diary backend in src/index.js: the multer upload filter,   *)
(* the startup schema initialisation, the connection pool and the create,  *)
(* update, delete and read handlers running as concurrent transactions     *)
(* against a PostgreSQL database at its default READ COMMITTED isolation.  *)
(*                                                                         *)
(* The database is modelled by its committed contents (db) plus, for each  *)
(* request in flight, the uncommitted writes of its transaction.  A        *)
(* transaction reads the committed contents overlaid with its own writes,  *)
(* a statement that needs a row lock held by another open transaction is   *)
(* not enabled until that transaction ends, COMMIT applies the writes in   *)
(* one step and ROLLBACK (or a lost connection) discards them.             *)
(***************************************************************************)
EXTENDS Integers, Sequences, FiniteSets, TLC

\* Number of create/update/delete requests a behaviour may contain.
MaxReqs == 2
\* Number of distinct valid UUIDs.
MaxId == 2

Ids == 1..MaxId
Reqs == 1..MaxReqs
\* A request id that uuidValidate rejects (missing or malformed).
InvalidId == 0

-----------------------------------------------------------------------------
(* The upload filter (multer configuration).                               *)

\* limits.fileSize
fileSize == 5 * 1024 * 1024

\* The alternatives of the regular expression /jpeg|jpg|png|gif|webp/.
filetypes ==
  { <<"j","p","e","g">>, <<"j","p","g">>, <<"p","n","g">>,
    <<"g","i","f">>, <<"w","e","b","p">> }

\* RegExp.prototype.test for an unanchored alternation of literals: the
\* string matches when some alternative occurs in it as a substring.
RegexTest(alts, s) ==
  \E a \in alts :
    \E o \in 1..Len(s) :
      /\ o + Len(a) - 1 <= Len(s)
      /\ SubSeq(s, o, o + Len(a) - 1) = a

\* String.prototype.toLowerCase on the characters the inputs use.
LowerChar(c) ==
  CASE c = "J" -> "j"
    [] c = "P" -> "p"
    [] c = "G" -> "g"
    [] c = "N" -> "n"
    [] OTHER -> c

ToLowerCase(s) == [k \in 1..Len(s) |-> LowerChar(s[k])]

\* path.extname of a file name without directory part: from the last "."
\* to the end, and empty when there is no "." or the only one leads the name.
ExtName(name) ==
  LET dots == {k \in 1..Len(name) : name[k] = "."}
  IN  IF dots = {} THEN <<>>
      ELSE LET last == CHOOSE k \in dots : \A j \in dots : j <= k
           IN  IF last = 1 THEN <<>> ELSE SubSeq(name, last, Len(name))

\* fileFilter: cb(null, true) when both tests pass, cb(Error) otherwise.
FileFilter(file) ==
  LET mimetype == RegexTest(filetypes, file.mimetype)
      extname == RegexTest(filetypes, ToLowerCase(ExtName(file.originalname)))
  IN  mimetype /\ extname

\* multer's verdict on an uploaded file: the filter, then the size limit.
MulterAccepts(file) ==
  /\ FileFilter(file)
  /\ file.size <= fileSize

\* Declared MIME types a client may send.
Mimetypes ==
  { <<"i","m","a","g","e","/","j","p","e","g">>,
    <<"i","m","a","g","e","/","j","p","g">>,
    <<"i","m","a","g","e","/","p","n","g">>,
    <<"i","m","a","g","e","/","g","i","f">>,
    <<"i","m","a","g","e","/","w","e","b","p">>,
    <<"t","e","x","t","/","p","l","a","i","n">>,
    <<"t","e","x","t","/","x","-","p","n","g","s">>,
    <<>> }

\* Original file names a client may send.
Filenames ==
  { <<"a",".","j","p","e","g">>,
    <<"a",".","j","p","g">>,
    <<"a",".","P","N","G">>,
    <<"a",".","g","i","f">>,
    <<"a",".","w","e","b","p">>,
    <<"a",".","t","x","t">>,
    <<"a",".","w","e","b","p","a","g","e">>,
    <<"p","n","g">>,
    <<".","p","n","g">>,
    <<"a",".","p","n","g",".","t","x","t">> }

\* Sizes on both sides of the limit.
Sizes == {1, fileSize + 1}

Files == [mimetype : Mimetypes, originalname : Filenames, size : Sizes]

\* The files the requests of the server model carry: an image, the same
\* image over the size limit, a text file, and a file named a.webpage
\* declared as image/png.
RequestFiles ==
  { [mimetype |-> <<"i","m","a","g","e","/","p","n","g">>,
     originalname |-> <<"a",".","P","N","G">>, size |-> 1],
    [mimetype |-> <<"i","m","a","g","e","/","p","n","g">>,
     originalname |-> <<"a",".","P","N","G">>, size |-> fileSize + 1],
    [mimetype |-> <<"t","e","x","t","/","p","l","a","i","n">>,
     originalname |-> <<"a",".","t","x","t">>, size |-> 1],
    [mimetype |-> <<"i","m","a","g","e","/","p","n","g">>,
     originalname |-> <<"a",".","w","e","b","p","a","g","e">>, size |-> 1] }

\* No file part in the request.
NoFile == [mimetype |-> <<>>, originalname |-> <<>>, size |-> 0]

-----------------------------------------------------------------------------
(* The database.                                                           *)

\* A row of memories.  by is the request whose INSERT or UPDATE wrote the
\* entry's fields last (0: written before this process started); path is
\* "image_path IS NOT NULL" of the legacy column.
NoRow == [present |-> FALSE, has_image |-> FALSE, by |-> 0, path |-> FALSE]

Row(hasImage, by) ==
  [present |-> TRUE, has_image |-> hasImage, by |-> by, path |-> FALSE]

\* A row of memory_images: the owning entry and the request that inserted
\* it (its serial id, payload and MIME type).
ImageRow(id, by) == [memory_id |-> id, by |-> by]

NoSchema ==
  [memories |-> FALSE, has_image |-> FALSE, image_path |-> FALSE,
   memory_images |-> FALSE]

CurrentSchema ==
  [memories |-> TRUE, has_image |-> TRUE, image_path |-> FALSE,
   memory_images |-> TRUE]

LegacySchema ==
  [memories |-> TRUE, has_image |-> FALSE, image_path |-> TRUE,
   memory_images |-> FALSE]

EmptyMem == [i \in Ids |-> NoRow]

\* Databases the process may be started on: an empty one, one left by the
\* disk-path version of the service (entry 1 has an image path), and one
\* left by this version (entry 1, without and with an image).
InitialDatabases ==
  { [schema |-> NoSchema, mem |-> EmptyMem, img |-> {}],
    [schema |-> LegacySchema,
     mem |-> [EmptyMem EXCEPT ![1] = [Row(FALSE, 0) EXCEPT !.path = TRUE]],
     img |-> {}],
    [schema |-> CurrentSchema,
     mem |-> [EmptyMem EXCEPT ![1] = Row(FALSE, 0)], img |-> {}],
    [schema |-> CurrentSchema,
     mem |-> [EmptyMem EXCEPT ![1] = Row(TRUE, 0)],
     img |-> {ImageRow(1, 0)}] }

\* The uncommitted writes of one transaction.
NoTx ==
  [rowOp |-> "none", hasImage |-> FALSE, delImgs |-> {}, insImg |-> FALSE,
   addCol |-> FALSE, addImgTable |-> FALSE]

\* A request slot before the request arrives.  pc is the handler's
\* position, hasImage its local variable, tx its open transaction.  Three
\* fields record history for the properties: disallowed (the uploaded file
\* is over the size limit or outside the allow-list), acquired (the
\* request got a client from the pool) and raced (another transaction
\* committed a write of the same id while this one was open).
NoReq ==
  [pc |-> "new", kind |-> "none", id |-> 1, file |-> FALSE,
   deleteImage |-> FALSE, hasImage |-> FALSE, tx |-> NoTx,
   responses |-> 0, status |-> 0,
   disallowed |-> FALSE, acquired |-> FALSE, raced |-> FALSE]

VARIABLES
  db,          \* committed database: schema, mem (memories), img (memory_images)
  req,         \* the requests: handler position, locals, open transaction
  checkedOut,  \* clients checked out of the pool and not released
  testConn,    \* the startup pool.connect(): "pending", "connected", "failed"
  initDone,    \* initializeDatabase() has resolved
  listening,   \* app.listen has been called
  deleted,     \* ids deleted by a successful Delete and not created since
  cbFile,      \* the file handed to fileFilter
  cbResult     \* what fileFilter passed to cb: "pending", "accept", "reject"

vars ==
  <<db, req, checkedOut, testConn, initDone, listening, deleted,
    cbFile, cbResult>>

serverVars ==
  <<db, req, checkedOut, testConn, initDone, listening, deleted>>

filterVars == <<cbFile, cbResult>>

InitServer(d) ==
  /\ db = d
  /\ req = [r \in Reqs |-> NoReq]
  /\ checkedOut = 0
  /\ testConn = "pending"
  /\ initDone = FALSE
  /\ listening = FALSE
  /\ deleted = {}

Init ==
  /\ \E d \in InitialDatabases : InitServer(d)
  /\ cbFile = NoFile
  /\ cbResult = "pending"

-----------------------------------------------------------------------------
(* Startup.                                                                *)

\* pool.connect().then(log).catch(log): the client is never released.
TestConnection ==
  /\ testConn = "pending"
  /\ \E ok \in BOOLEAN :
       IF ok
       THEN /\ testConn' = "connected"
            /\ checkedOut' = checkedOut + 1
       ELSE /\ testConn' = "failed"
            /\ UNCHANGED checkedOut
  /\ UNCHANGED <<db, req, initDone, listening, deleted, filterVars>>

\* The statements of initializeDatabase in order.  Each runs through
\* pool.query, hence commits on its own.  A statement fails when the fault
\* f names it or when the table it needs is missing.
InitStatements ==
  <<"create_memories", "check_has_image", "add_has_image",
    "check_image_path", "set_has_image", "select_paths",
    "create_memory_images", "drop_image_path">>

\* Effect of one statement on the database.
InitApply(d, stmt) ==
  CASE stmt = "create_memories" ->
         [d EXCEPT !.schema.memories = TRUE]
    [] stmt = "add_has_image" ->
         [d EXCEPT !.schema.has_image = TRUE]
    [] stmt = "set_has_image" ->
         [d EXCEPT !.mem = [i \in Ids |->
            IF d.mem[i].present /\ d.mem[i].path
            THEN [d.mem[i] EXCEPT !.has_image = TRUE]
            ELSE d.mem[i]]]
    [] stmt = "create_memory_images" ->
         [d EXCEPT !.schema.memory_images = TRUE]
    [] stmt = "drop_image_path" ->
         [d EXCEPT !.schema.image_path = FALSE,
                   !.mem = [i \in Ids |-> [d.mem[i] EXCEPT !.path = FALSE]]]
    [] OTHER -> d

\* Whether the control flow reaches the statement in database d.
InitReaches(d, stmt) ==
  CASE stmt = "add_has_image" -> ~d.schema.has_image
    [] stmt \in {"set_has_image", "select_paths", "drop_image_path"} ->
         d.schema.image_path
    [] OTHER -> TRUE

\* Whether the statement raises: the injected fault, or a missing table.
InitFails(d, stmt, f) ==
  \/ f # 0 /\ InitStatements[f] = stmt
  \/ /\ stmt \in {"add_has_image", "set_has_image", "select_paths",
                  "drop_image_path"}
     /\ ~d.schema.memories

\* Run statements k.. of initializeDatabase on d with fault f (0: none).
\* A failure of drop_image_path is caught by the inner try and the function
\* goes on; any other failure leaves through the outer catch.
RECURSIVE InitFrom(_, _, _)
InitFrom(d, k, f) ==
  IF k > Len(InitStatements) THEN d
  ELSE LET stmt == InitStatements[k]
       IN  IF ~InitReaches(d, stmt) THEN InitFrom(d, k + 1, f)
           ELSE IF InitFails(d, stmt, f)
                THEN IF stmt = "drop_image_path" THEN InitFrom(d, k + 1, f) ELSE d
                ELSE InitFrom(InitApply(d, stmt), k + 1, f)

\* initializeDatabase: every error is caught and logged, the promise
\* always resolves.
InitializeDatabase ==
  /\ ~initDone
  /\ \E f \in 0..Len(InitStatements) :
       db' = InitFrom(db, 1, f)
  /\ initDone' = TRUE
  /\ UNCHANGED <<req, checkedOut, testConn, listening, deleted,
                 filterVars>>

\* initializeDatabase().then(() => app.listen(port))
Listen ==
  /\ initDone
  /\ ~listening
  /\ listening' = TRUE
  /\ UNCHANGED <<db, req, checkedOut, testConn, initDone, deleted,
                 filterVars>>

-----------------------------------------------------------------------------
(* What a transaction sees and which locks stand in its way.               *)

Others(r) == Reqs \ {r}

\* The schema as the transaction of r sees it (DDL is transactional).
ViewSchema(r) ==
  [db.schema EXCEPT
     !.has_image = @ \/ req[r].tx.addCol,
     !.memory_images = @ \/ req[r].tx.addImgTable]

\* The memories row of the request's id as its transaction sees it.
ViewRow(r) ==
  LET t == req[r].tx
      cur == db.mem[req[r].id]
  IN  CASE t.rowOp = "ins" -> Row(t.hasImage, r)
        [] t.rowOp = "upd" -> [cur EXCEPT !.has_image = t.hasImage, !.by = r]
        [] t.rowOp = "del" -> NoRow
        [] OTHER -> cur

\* The committed memory_images rows of entry i.
ImagesOf(d, i) == {x \in d.img : x.memory_id = i}

\* Another open transaction has inserted, updated or deleted the row of i.
RowLocked(r, i) ==
  \E u \in Others(r) : req[u].id = i /\ req[u].tx.rowOp # "none"

\* Another open transaction is deleting the row of i.
RowDeleting(r, i) ==
  \E u \in Others(r) : req[u].id = i /\ req[u].tx.rowOp = "del"

\* Another open transaction holds the key-share lock its foreign-key check
\* took on the row of i when it inserted an image for it.
KeyShared(r, i) ==
  \E u \in Others(r) : req[u].id = i /\ req[u].tx.insImg

\* Another open transaction has deleted one of the image rows in S.
ImagesLocked(r, S) ==
  \E u \in Others(r) : req[u].tx.delImgs \cap S # {}

\* COMMIT of the transaction of r on database d.
Commit(d, r) ==
  LET t == req[r].tx
      i == req[r].id
  IN  [schema |-> [d.schema EXCEPT
                     !.has_image = @ \/ t.addCol,
                     !.memory_images = @ \/ t.addImgTable],
       mem |-> [d.mem EXCEPT ![i] =
                  CASE t.rowOp = "ins" -> Row(t.hasImage, r)
                    [] t.rowOp = "upd" ->
                         [@ EXCEPT !.has_image = t.hasImage, !.by = r]
                    [] t.rowOp = "del" -> NoRow
                    [] OTHER -> @],
       img |-> (d.img \ t.delImgs)
                 \cup (IF t.insImg THEN {ImageRow(i, r)} ELSE {})]

\* The transaction of r writes something.
Writes(r) ==
  \/ req[r].tx.rowOp # "none"
  \/ req[r].tx.insImg
  \/ req[r].tx.delImgs # {}

-----------------------------------------------------------------------------
(* How a handler ends.                                                     *)

\* The request slot once the handler has ended: what was answered, and
\* what the request did with the pool.
Done(r, responses, status) ==
  [NoReq EXCEPT !.pc = "done", !.responses = responses, !.status = status,
                !.disallowed = req[r].disallowed,
                !.acquired = req[r].acquired]

\* The handler answers with the given status; its finally block, if it
\* holds a client, releases it.
Respond(r, status, held) ==
  /\ req' = [req EXCEPT ![r] = Done(r, req[r].responses + 1, status)]
  /\ checkedOut' = IF held THEN checkedOut - 1 ELSE checkedOut

\* The async handler's promise rejects (after its finally block released
\* the client it held).  Express 4 does not observe the promise: nothing is
\* sent.  Express 5 forwards the rejection to its error handler, which
\* answers 500.  Which one runs depends on the installed express version.
Reject(r, held) ==
  /\ \E forwarded \in BOOLEAN :
       req' = [req EXCEPT ![r] =
         IF forwarded THEN Done(r, req[r].responses + 1, 500)
         ELSE Done(r, req[r].responses, req[r].status)]
  /\ checkedOut' = IF held THEN checkedOut - 1 ELSE checkedOut

\* A statement raised inside the try block: control goes to the catch.
Throw(r) ==
  /\ req' = [req EXCEPT ![r].pc = "catch"]
  /\ UNCHANGED checkedOut

\* The statement succeeded: next position, locals and transaction.
Goto(r, pc, hasImage, tx) ==
  /\ req' = [req EXCEPT ![r] =
       [@ EXCEPT !.pc = pc, !.hasImage = hasImage, !.tx = tx]]
  /\ UNCHANGED checkedOut

\* "ROLLBACK; return res.status(404)" inside the try block: when the
\* ROLLBACK raises, the catch block takes over.
NotFound(r) ==
  \E rollbackOk \in BOOLEAN :
    IF rollbackOk THEN Respond(r, 404, TRUE) ELSE Throw(r)

-----------------------------------------------------------------------------
(* Requests.                                                               *)

\* uuidv4(): an id that names no entry, named none that was deleted and
\* is the id of no request in flight.
FreshIds ==
  {i \in Ids : /\ ~db.mem[i].present
               /\ i \notin deleted
               /\ \A u \in Reqs :
                    req[u].pc \in {"new", "done"} \/ req[u].id # i}

\* ensureValidUUID: the id itself when valid, a generated one otherwise
\* (the set of the values it may return).
EnsureValidUUID(id) ==
  IF id = InvalidId THEN FreshIds ELSE {id}

\* The MIME types and extensions of the allow-list {jpeg, jpg, png, gif,
\* webp}, and the image format each of them names.
AllowedFormats ==
  { <<"j","p","e","g">>, <<"j","p","g">>, <<"p","n","g">>,
    <<"g","i","f">>, <<"w","e","b","p">> }

FormatOf(t) == IF t = <<"j","p","g">> THEN <<"j","p","e","g">> ELSE t

MimeFormats(m) == {t \in AllowedFormats : m = <<"i","m","a","g","e","/">> \o t}

ExtFormats(name) ==
  {t \in AllowedFormats : ToLowerCase(ExtName(name)) = <<".">> \o t}

\* The file is over the size limit, or its MIME type or its extension is
\* not a value of the allow-list.
Disallowed(file) ==
  \/ file.size > fileSize
  \/ MimeFormats(file.mimetype) = {}
  \/ ExtFormats(file.originalname) = {}

\* Requests arrive in the order of their numbers.
MayArrive(r) ==
  /\ listening
  /\ req[r].pc = "new"
  /\ IF r = 1 THEN TRUE ELSE req[r - 1].pc # "new"

\* POST /api/memories and PUT /api/memories/:id arrive through
\* upload.single('image'): a file multer refuses ends the request in the
\* error handler (500) and the route handler is not called; otherwise the
\* handler starts with req.file set or unset.  The id is the one
\* ensureValidUUID will yield.
UploadSingle(r) ==
  /\ MayArrive(r)
  /\ \E kind \in {"create", "update"}, raw \in Ids \cup {InvalidId},
        file \in RequestFiles \cup {NoFile}, deleteImage \in BOOLEAN :
       /\ kind = "create" => ~deleteImage
       /\ IF file # NoFile /\ ~MulterAccepts(file)
          THEN req' = [req EXCEPT ![r] =
                 [NoReq EXCEPT !.pc = "done",
                               !.responses = 1, !.status = 500,
                               !.disallowed = Disallowed(file)]]
          ELSE \E id \in EnsureValidUUID(raw) :
                 req' = [req EXCEPT ![r] =
                   [@ EXCEPT !.pc = "connect", !.kind = kind, !.id = id,
                             !.file = (file # NoFile),
                             !.deleteImage = deleteImage,
                             !.disallowed =
                               (file # NoFile /\ Disallowed(file))]]
  /\ UNCHANGED <<db, checkedOut, testConn, initDone, listening, deleted,
                 filterVars>>

\* DELETE /api/memories/:id arrives: the id is normalised first.
DeleteArrive(r) ==
  /\ MayArrive(r)
  /\ \E raw \in Ids \cup {InvalidId} :
       \E id \in EnsureValidUUID(raw) :
         req' = [req EXCEPT ![r] =
           [@ EXCEPT !.pc = "connect", !.kind = "delete", !.id = id]]
  /\ UNCHANGED <<db, checkedOut, testConn, initDone, listening, deleted,
                 filterVars>>

\* const client = await pool.connect(), outside the try block: when it
\* raises, the handler's promise rejects.
Connect(r) ==
  /\ req[r].pc = "connect"
  /\ \E ok \in BOOLEAN :
       IF ok
       THEN /\ req' = [req EXCEPT ![r] =
                 [@ EXCEPT !.pc = "begin", !.acquired = TRUE]]
            /\ checkedOut' = checkedOut + 1
       ELSE Reject(r, FALSE)
  /\ UNCHANGED <<db, testConn, initDone, listening, deleted,
                 filterVars>>

\* The first statement of each handler after BEGIN.
FirstStep(kind) ==
  CASE kind = "create" -> "schema"
    [] kind = "update" -> "exists"
    [] kind = "delete" -> "delrow"

\* await client.query('BEGIN')
Begin(r) ==
  /\ req[r].pc = "begin"
  /\ \E ok \in BOOLEAN :
       IF ok
       THEN Goto(r, FirstStep(req[r].kind), FALSE, NoTx)
       ELSE Throw(r)
  /\ UNCHANGED <<db, testConn, initDone, listening, deleted,
                 filterVars>>

\* Update: SELECT id FROM memories WHERE id = $1, and the NotFound return.
UpdateExists(r) ==
  /\ req[r].pc = "exists"
  /\ \E ok \in BOOLEAN :
       IF ~ok \/ ~ViewSchema(r).memories THEN Throw(r)
       ELSE IF ~ViewRow(r).present THEN NotFound(r)
       ELSE Goto(r, "schema", FALSE, req[r].tx)
  /\ UNCHANGED <<db, testConn, initDone, listening, deleted,
                 filterVars>>

\* Create and Update: look the has_image column up and add it when it is
\* missing (ALTER TABLE raises when the table itself is missing).
SchemaCheck(r) ==
  /\ req[r].pc = "schema"
  /\ \E ok \in BOOLEAN :
       LET next == IF req[r].kind = "create" THEN "insrow" ELSE "image"
       IN  IF ~ok THEN Throw(r)
           ELSE IF ViewSchema(r).has_image
                THEN Goto(r, next, FALSE, req[r].tx)
           ELSE IF ~ViewSchema(r).memories THEN Throw(r)
           ELSE Goto(r, next, FALSE, [req[r].tx EXCEPT !.addCol = TRUE])
  /\ UNCHANGED <<db, testConn, initDone, listening, deleted,
                 filterVars>>

\* Create: INSERT INTO memories ... has_image = !!req.file.  An existing
\* id violates the primary key; an uncommitted insert of the same id by
\* another transaction makes the statement wait.
CreateInsertRow(r) ==
  /\ req[r].pc = "insrow"
  /\ \E ok \in BOOLEAN :
       IF ~ok \/ db.mem[req[r].id].present THEN Throw(r)
       ELSE /\ ~RowLocked(r, req[r].id)
            /\ Goto(r, IF req[r].file THEN "insimg" ELSE "commit",
                    req[r].file,
                    [req[r].tx EXCEPT !.rowOp = "ins",
                                      !.hasImage = req[r].file])
  /\ UNCHANGED <<db, testConn, initDone, listening, deleted,
                 filterVars>>

\* DELETE FROM memory_images WHERE memory_id = $1 in the transaction of r:
\* the rows it sees, which it waits for while another transaction is
\* deleting one of them.  A statement that waited is taken to run once the
\* lock is free, on the rows committed by then.
DeleteImages(r) ==
  [req[r].tx EXCEPT !.delImgs = @ \cup ImagesOf(db, req[r].id)]

\* A bug the branch could have: the deleteImage flag is tested first.
ImageBranchFlagFirst(file, deleteImage) ==
  IF deleteImage THEN "remove"
  ELSE IF file THEN "replace"
  ELSE "keep"

\* Update: which image branch runs -- if (req.file) ... else if
\* (deleteImage === 'true') ... else ...
ImageBranch(file, deleteImage) ==
  IF file THEN "replace"
  ELSE IF deleteImage THEN "remove"
  ELSE "keep"

\* Update: the image branch.  "replace": hasImage = true and the old
\* images are deleted (the statement raises when memory_images is
\* missing); "remove": hasImage = false and the images are deleted;
\* "keep": hasImage = the row's has_image, false without a row.
UpdateImage(r) ==
  /\ req[r].pc = "image"
  /\ \E ok \in BOOLEAN :
       LET branch == ImageBranch(req[r].file, req[r].deleteImage)
       IN  IF branch \in {"replace", "remove"}
           THEN IF ~ok \/ ~ViewSchema(r).memory_images THEN Throw(r)
                ELSE /\ ~ImagesLocked(r, ImagesOf(db, req[r].id))
                     /\ Goto(r, IF branch = "replace" THEN "insimg" ELSE "update",
                             branch = "replace", DeleteImages(r))
           ELSE IF ~ok THEN Throw(r)
                ELSE Goto(r, "update",
                          ViewRow(r).present /\ ViewRow(r).has_image,
                          req[r].tx)
  /\ UNCHANGED <<db, testConn, initDone, listening, deleted, filterVars>>

\* Create and Update with a file: CREATE TABLE IF NOT EXISTS memory_images
\* and INSERT INTO memory_images.  The foreign key needs the entry's row:
\* the insert raises without it and waits while another transaction is
\* deleting it.
InsertImage(r) ==
  /\ req[r].pc = "insimg"
  /\ \E ok \in BOOLEAN :
       IF ~ok \/ ~ViewRow(r).present THEN Throw(r)
       ELSE /\ ~RowDeleting(r, req[r].id)
            /\ Goto(r, IF req[r].kind = "create" THEN "commit" ELSE "update",
                    req[r].hasImage,
                    [req[r].tx EXCEPT
                       !.insImg = TRUE,
                       !.addImgTable = ~db.schema.memory_images])
  /\ UNCHANGED <<db, testConn, initDone, listening, deleted,
                 filterVars>>

\* Update: UPDATE memories SET ..., has_image = $6 WHERE id = $7.  It
\* waits for another transaction's write of the row and updates no row
\* when the entry is gone.
UpdateRow(r) ==
  /\ req[r].pc = "update"
  /\ \E ok \in BOOLEAN :
       IF ~ok THEN Throw(r)
       ELSE IF ~db.mem[req[r].id].present
            THEN Goto(r, "commit", req[r].hasImage, req[r].tx)
       ELSE /\ ~RowLocked(r, req[r].id)
            /\ Goto(r, "commit", req[r].hasImage,
                    [req[r].tx EXCEPT !.rowOp = "upd",
                                      !.hasImage = req[r].hasImage])
  /\ UNCHANGED <<db, testConn, initDone, listening, deleted,
                 filterVars>>

\* A bug the schema could have: no ON DELETE CASCADE action.
NoCascade(d, i) == {}

\* ON DELETE CASCADE of memory_images.memory_id: the image rows that go
\* with the row of entry i.
Cascade(d, i) == IF d.schema.memory_images THEN ImagesOf(d, i) ELSE {}

\* Delete: DELETE FROM memories WHERE id = $1 RETURNING *, and the
\* NotFound return when no row was deleted.  The statement waits for
\* other transactions' locks on the row and on the cascaded image rows.
DeleteRow(r) ==
  /\ req[r].pc = "delrow"
  /\ \E ok \in BOOLEAN :
       IF ~ok \/ ~db.schema.memories THEN Throw(r)
       ELSE IF ~db.mem[req[r].id].present THEN NotFound(r)
       ELSE /\ ~RowLocked(r, req[r].id)
            /\ ~KeyShared(r, req[r].id)
            /\ ~ImagesLocked(r, Cascade(db, req[r].id))
            /\ Goto(r, "commit", FALSE,
                    [req[r].tx EXCEPT !.rowOp = "del",
                                      !.delImgs = Cascade(db, req[r].id)])
  /\ UNCHANGED <<db, testConn, initDone, listening, deleted,
                 filterVars>>

\* The status of the success response of each handler.
SuccessStatus(kind) == IF kind = "create" THEN 201 ELSE 200

\* Requests whose transaction has read or written entry i and is open.
Overlapping(r, i) ==
  {u \in Others(r) :
     /\ req[u].id = i
     /\ req[u].pc \in {"schema", "insrow", "image", "insimg", "update",
                       "commit"}}

\* A bug the handlers could have: the catch block keeps what the
\* transaction wrote so far instead of rolling it back.
RollbackKeeps(d, r) == Commit(d, r)

\* ROLLBACK, or the end of a transaction whose connection broke.
Rollback(d, r) == d

\* await client.query('COMMIT'), the success response and the release in
\* the finally block.  When COMMIT raises nothing is committed.
CommitStep(r) ==
  /\ req[r].pc = "commit"
  /\ \E ok \in BOOLEAN :
       IF ok
       THEN /\ db' = Commit(db, r)
            /\ req' = [u \in Reqs |->
                 IF u = r
                 THEN Done(r, req[r].responses + 1,
                           SuccessStatus(req[r].kind))
                 ELSE IF Writes(r) /\ u \in Overlapping(r, req[r].id)
                      THEN [req[u] EXCEPT !.raced = TRUE]
                      ELSE req[u]]
            /\ checkedOut' = checkedOut - 1
            /\ deleted' =
                 CASE req[r].tx.rowOp = "del" -> deleted \cup {req[r].id}
                   [] req[r].tx.rowOp = "ins" -> deleted \ {req[r].id}
                   [] OTHER -> deleted
       ELSE /\ Throw(r)
            /\ UNCHANGED <<db, deleted>>
  /\ UNCHANGED <<testConn, initDone, listening, filterVars>>

\* The catch block and the finally block: ROLLBACK, the 500 response, the
\* release.  When ROLLBACK raises, the response is skipped, the finally
\* block still releases the client and the handler's promise rejects.
Catch(r) ==
  /\ req[r].pc = "catch"
  /\ db' = Rollback(db, r)
  /\ \E rollbackOk \in BOOLEAN :
       IF rollbackOk THEN Respond(r, 500, TRUE) ELSE Reject(r, TRUE)
  /\ UNCHANGED <<testConn, initDone, listening, deleted,
                 filterVars>>

\* GET /api/memories/:id on database d: the status of the response.
GetMemory(d, raw) ==
  IF ~d.schema.memories THEN 500
  ELSE IF raw # InvalidId /\ d.mem[raw].present THEN 200
  ELSE 404

\* GET /api/images/:id on database d: the status of the response.
GetImage(d, raw) ==
  IF raw = InvalidId THEN 400
  ELSE IF ~d.schema.memory_images THEN 404
  ELSE IF ImagesOf(d, raw) = {} THEN 404
  ELSE 200

Handler(r) ==
  \/ UploadSingle(r)
  \/ DeleteArrive(r)
  \/ Connect(r)
  \/ Begin(r)
  \/ UpdateExists(r)
  \/ SchemaCheck(r)
  \/ CreateInsertRow(r)
  \/ UpdateImage(r)
  \/ InsertImage(r)
  \/ UpdateRow(r)
  \/ DeleteRow(r)
  \/ CommitStep(r)
  \/ Catch(r)

Next ==
  \/ TestConnection
  \/ InitializeDatabase
  \/ Listen
  \/ \E r \in Reqs : Handler(r)

Spec == Init /\ [][Next]_vars

-----------------------------------------------------------------------------
(* The upload filter on its own: multer hands each uploaded file to        *)
(* fileFilter, which answers through cb.                                   *)

InitFilter ==
  /\ InitServer([schema |-> NoSchema, mem |-> EmptyMem, img |-> {}])
  /\ cbFile \in Files
  /\ cbResult = "pending"

FilterCall ==
  /\ cbResult = "pending"
  /\ cbResult' = IF FileFilter(cbFile) THEN "accept" ELSE "reject"
  /\ UNCHANGED <<cbFile, serverVars>>

NextFilter == FilterCall

SpecFilter == InitFilter /\ [][NextFilter]_vars

-----------------------------------------------------------------------------
(* Properties.                                                             *)

\* C1: Create and Update are atomic in the entry row and the image asset:
\* in every step, the row write of a request that carries an image becomes
\* part of the committed database exactly when its asset write does, so
\* the committed state (all another request can read) never holds one of
\* the two without the other, whichever statement failed.
C1_RowAndAssetTogether ==
  [][\A r \in Reqs :
       (req[r].kind \in {"create", "update"} /\ req[r].file) =>
         LET i == req[r].id
             rowBefore == db.mem[i].present /\ db.mem[i].by = r
             rowAfter == db'.mem[i].present /\ db'.mem[i].by = r
         IN  (rowAfter /\ ~rowBefore)
               <=> (ImageRow(i, r) \in db'.img /\ ImageRow(i, r) \notin db.img)
    ]_vars

\* C1 witness: one request with an image has committed its row and its
\* asset, and another request failed after it had begun its transaction.
C1_Witness ==
  \E r, u \in Reqs, i \in Ids :
    /\ ImageRow(i, r) \in db.img
    /\ db.mem[i].present /\ db.mem[i].by = r
    /\ req[u].pc = "done" /\ req[u].status = 500 /\ req[u].acquired

\* C2: once initialisation is over, in every committed state has_image of
\* every entry is true exactly when a memory_images row exists for it.
C2_HasImageMatchesAsset ==
  initDone =>
    \A i \in Ids :
      db.mem[i].present =>
        (db.mem[i].has_image <=> ImagesOf(db, i) # {})

\* C3: an Update of an existing id that commits, with no other write of
\* that id committed while it ran, applies the image semantics in priority
\* order: (a) with a new image the entry's only asset is the new one and
\* has_image is true, whatever deleteImage says; (b) otherwise with
\* deleteImage the entry has no asset and has_image is false; (c)
\* otherwise the assets and has_image are as they were.
C3_UpdateImagePriority ==
  [][\A r \in Reqs :
       ( /\ req[r].kind = "update"
         /\ req[r].pc = "commit"
         /\ req'[r].pc = "done"
         /\ req'[r].status = 200
         /\ ~req[r].raced
         /\ db.mem[req[r].id].present ) =>
         LET i == req[r].id
         IN  IF req[r].file
             THEN /\ ImagesOf(db', i) = {ImageRow(i, r)}
                  /\ db'.mem[i].has_image
             ELSE IF req[r].deleteImage
             THEN /\ ImagesOf(db', i) = {}
                  /\ ~db'.mem[i].has_image
             ELSE /\ ImagesOf(db', i) = ImagesOf(db, i)
                  /\ db'.mem[i].has_image = db.mem[i].has_image
    ]_vars

\* C3 witness: an Update that carried both a new image and the deleteImage
\* flag is about to commit the replacement of an existing asset.
C3_Witness ==
  \E r \in Reqs :
    /\ req[r].kind = "update" /\ req[r].pc = "commit"
    /\ req[r].file /\ req[r].deleteImage
    /\ ~req[r].raced
    /\ req[r].tx.delImgs # {} /\ req[r].tx.insImg
    /\ req[r].tx.rowOp = "upd"

\* C4: an id deleted by a successful Delete and not created since is
\* NotFound for Get and for the image fetch; and a Delete of an id that
\* names no entry changes no row and answers NotFound (or, when a statement
\* raises, goes to the catch block).
C4_DeletedIsGone ==
  /\ [](\A i \in deleted :
          GetMemory(db, i) = 404 /\ GetImage(db, i) = 404)
  /\ [][\A r \in Reqs :
          ( /\ req[r].kind = "delete"
            /\ req[r].pc = "delrow"
            /\ db.schema.memories
            /\ ~db.mem[req[r].id].present
            /\ req'[r] # req[r] ) =>
            /\ db' = db
            /\ \/ req'[r].pc = "done" /\ req'[r].status = 404
               \/ req'[r].pc = "catch"
     ]_vars

\* C4 witness: a Delete has succeeded, the image table exists, and another
\* request was answered NotFound.
C4_Witness ==
  /\ deleted # {}
  /\ db.schema.memory_images
  /\ \E r \in Reqs :
       req[r].pc = "done" /\ req[r].status = 404 /\ req[r].acquired

\* C5: a request whose file is over 5 MiB or has a MIME type or extension
\* outside the allow-list never acquires a connection (and so begins no
\* transaction and writes no row).
C5_DisallowedNeverConnects ==
  \A r \in Reqs : req[r].disallowed => ~req[r].acquired

\* C6: when no request is in flight and the startup connectivity test has
\* settled, no client is checked out of the pool.
C6_AllReleased ==
  ( /\ testConn # "pending"
    /\ \A r \in Reqs : req[r].pc \in {"new", "done"} )
    => checkedOut = 0

\* C7: a request whose handling has ended has received exactly one
\* response.
C7_OneResponse ==
  \A r \in Reqs : req[r].pc = "done" => req[r].responses = 1

\* C8: the server listens only when the memories table exists.
C8_ListenNeedsMemories ==
  listening => db.schema.memories

\* C9: a file the filter accepts has an allow-listed MIME type and an
\* allow-listed extension that name the same format.
C9_AcceptsOnlyAgreeingAllowed ==
  cbResult = "accept" =>
    \E m \in MimeFormats(cbFile.mimetype),
       e \in ExtFormats(cbFile.originalname) :
      FormatOf(m) = FormatOf(e)

\* C10: no entry has more than one memory_images row.
C10_AtMostOneImage ==
  \A i \in Ids : Cardinality(ImagesOf(db, i)) <= 1

====
